---- MODULE Spec2Model ----
(***************************************************************************)
(* A model of the operation envelope of package fuseops                    *)
(* (src/fuseops/common_op.go): commonOp.init, commonOp.ShortDesc,          *)
(* commonOp.Logf and commonOp.Respond, together with the collaborators     *)
(* they call (the trace span provider, the kernel request handle, the      *)
(* reply channel and the two log sinks).                                   *)
(*                                                                         *)
(* Strings are sequences of one-character strings, so that                 *)
(* strings.HasPrefix, strings.HasSuffix, slicing and fmt.Sprintf are       *)
(* computed and not assumed.                                               *)
(***************************************************************************)
EXTENDS Integers, Sequences, FiniteSets, TLC

VARIABLES
    env,          \* env[id]: the commonOp fields of the envelope of request id
    st,           \* env's position: "zero", "created", "responded", "panicked"
    hist,         \* hist[id]: the calls the envelope made, in order
    replyChan,    \* the messages submitted to the kernel reply channel
    debugOut,     \* what the debug sink was called with
    errorOut,     \* the lines printed by the error logger
    connAlive,    \* whether the kernel connection still delivers
    crashed,      \* an unrecovered panic ended the process
    connDebugLog,     \* the dispatcher's debug sink (NIL: none)
    connErrorLogger,  \* the dispatcher's error logger (NIL: none)
    calls,        \* Respond calls made so far, over all envelopes
    sdOp,         \* ShortDesc study: the op under study
    sdOut,        \* ShortDesc study: the result of the last call
    sdCalls,      \* ShortDesc study: number of calls made
    canceled,     \* canceled[id]: the context passed to init was canceled
    gotCtx,       \* gotCtx[id]: what Context() last returned to the file system
    mC,           \* the candidate value handed to a matcher
    mExpT,        \* the expected time a time matcher was built with
    mExpN,        \* the expected link count NlinkIs was built with
    mD,           \* the tolerance MtimeIsWithin was built with
    mFn,          \* the matcher applied to the candidate, "none" before
    mRes          \* the error the matcher returned, NIL when it matched

vars == <<env, st, hist, replyChan, debugOut, errorOut, connAlive, crashed,
          connDebugLog, connErrorLogger, calls, sdOp, sdOut, sdCalls,
          canceled, gotCtx, mC, mExpT, mExpN, mD, mFn, mRes>>

mainVars == <<env, st, hist, replyChan, debugOut, errorOut, connAlive, crashed,
              connDebugLog, connErrorLogger, calls>>

sdVars == <<sdOp, sdOut, sdCalls>>

liveVars == <<canceled, gotCtx>>

matchVars == <<mC, mExpT, mExpN, mD, mFn, mRes>>

----------------------------------------------------------------------------
(* Bounds *)

\* Number of requests (envelopes) the kernel issues.
NumEnvs == 2

\* Cap on the number of Respond calls made, over all envelopes.
MaxCalls == 2

\* Cap on the number of ShortDesc calls in the ShortDesc study.
MaxDescCalls == 2

\* Cap on the number of Logf calls the file system makes on an envelope.
MaxLogf == 1

\* Width in bits of time.Duration (a signed integer), scaled down from 64.
DurationBits == 2

\* Largest link count drawn.
MaxNlink == 2

----------------------------------------------------------------------------
(* Values *)

NIL == "nil"

\* The fuse unique IDs the kernel assigns; an envelope is named by its ID.
Envs == 1 .. NumEnvs

\* Error values the file system may pass to Respond, with their text
\* (err.Error()) and the errno the reply channel translates them to.
Errs == {"errIO", "errIOdisk", "errNoEnt"}

ErrorText(err) ==
    CASE err = "errIO"     -> <<"i", "o">>
      [] err = "errIOdisk" -> <<"i", "o", " ", "d", "i", "s", "k">>
      [] err = "errNoEnt"  -> <<"n", "o", "e", "n", "t">>
      [] OTHER             -> <<"<", "n", "i", "l", ">">>

Errno(err) ==
    CASE err = "errIO"     -> "EIO"
      [] err = "errIOdisk" -> "EIO"
      [] err = "errNoEnt"  -> "ENOENT"
      [] OTHER             -> "EIO"

\* The errors the main specification passes to Respond (nil included).
RespondArgs == {NIL, "errIO", "errNoEnt"}

\* Contexts the dispatcher passes to init.
Contexts == {"background"}

\* The error a dead connection makes the reply channel return.
ErrNotConn == "ENOTCONN"

----------------------------------------------------------------------------
(* Strings *)

HasPrefix(s, p) == Len(s) >= Len(p) /\ SubSeq(s, 1, Len(p)) = p

HasSuffix(s, x) == Len(s) >= Len(x) /\ SubSeq(s, Len(s) - Len(x) + 1, Len(s)) = x

\* s contains sub as a contiguous substring.
Contains(s, sub) ==
    \E i \in 1 .. (Len(s) - Len(sub) + 1) : SubSeq(s, i, i + Len(sub) - 1) = sub

Digits == <<"0", "1", "2", "3", "4", "5", "6", "7", "8", "9">>

\* fmt's %v of an unsigned integer: its decimal digits.
RECURSIVE FormatUint(_)
FormatUint(n) ==
    IF n < 10 THEN <<Digits[n + 1]>>
    ELSE FormatUint(n \div 10) \o <<Digits[(n % 10) + 1]>>

prefix == <<"*", "f", "u", "s", "e", "o", "p", "s", ".">>

suffix == <<"O", "p">>

----------------------------------------------------------------------------
(* Operation variants *)

\* The concrete types an op may have, by reflect's Type().String().  A type
\* whose string starts with "*" is a pointer type; the others are struct
\* types held by value.
TypeNames ==
    { <<"*", "f", "u", "s", "e", "o", "p", "s", ".", "R", "d", "O", "p">>,
      <<"*", "f", "u", "s", "e", "o", "p", "s", ".", "O", "p">>,
      <<"*", "f", "u", "s", "e", "o", "p", "s", ".", "R", "d">>,
      <<"*", "x", ".", "R", "d", "O", "p">>,
      <<"f", "u", "s", "e", "o", "p", "s", ".", "R", "d", "O", "p">>,
      <<"x", ".", "R", "d", "O", "p">>,
      <<"x", ".", "T">> }

InodeValues == {0, 7, 42, 105}

\* reflect.Value.Kind() of reflect.ValueOf(op).
KindOf(typeName) == IF typeName[1] = "*" THEN "ptr" ELSE "struct"

MakeOp(typeName, hasInode, inode) ==
    [typeName |-> typeName, kind |-> KindOf(typeName),
     hasInode |-> hasInode, Inode |-> inode]

\* Every op: a type, and either no Inode field or an Inode field with a value.
Ops ==
    {MakeOp(t, FALSE, 0) : t \in TypeNames}
        \cup {MakeOp(t, TRUE, n) : t \in TypeNames, n \in InodeValues}

\* The ops the dispatcher of the main specification decodes.
MainOps ==
    { MakeOp(<<"*", "f", "u", "s", "e", "o", "p", "s", ".", "R", "d", "O", "p">>, TRUE, 42),
      MakeOp(<<"f", "u", "s", "e", "o", "p", "s", ".", "R", "d", "O", "p">>, TRUE, 42),
      MakeOp(<<"x", ".", "T">>, FALSE, 0) }

\* The zero value of the op field before init.
ZeroOp == [typeName |-> <<>>, kind |-> NIL, hasInode |-> FALSE, Inode |-> 0]

----------------------------------------------------------------------------
(* commonOp.ShortDesc *)

\* What a call produces: a panic, or the returned string.
Panicked == [panic |-> TRUE, desc |-> <<>>]

Returned(desc) == [panic |-> FALSE, desc |-> desc]

\* opName after the attempt to strip "*fuseops." and "Op" (lines 72-78).
TrimOpName(opName) ==
    IF HasPrefix(opName, prefix) /\ HasSuffix(opName, suffix)
    THEN SubSeq(opName, Len(prefix) + 1, Len(opName) - Len(suffix))
    ELSE opName

\* fmt.Sprintf("%s(inode=%v)", opName, inode)
SprintfInode(opName, inode) ==
    opName \o <<"(", "i", "n", "o", "d", "e", "=">> \o FormatUint(inode) \o <<")">>

\* v.FieldByName("Inode") on v = reflect.ValueOf(o.op): panics unless v's
\* kind is Struct; otherwise the field, valid iff the struct has it.
FieldByNameInode(op) ==
    IF op.kind # "struct" THEN [panic |-> TRUE, valid |-> FALSE, value |-> 0]
    ELSE [panic |-> FALSE, valid |-> op.hasInode, value |-> op.Inode]

\* The named result desc starts as "" and is assigned only under the
\* Inode test (lines 81-85).
ShortDesc(op) ==
    LET opName == TrimOpName(op.typeName)
        f == FieldByNameInode(op)
    IN  IF f.panic THEN Panicked
        ELSE IF f.valid THEN Returned(SprintfInode(opName, f.value))
        ELSE Returned(<<>>)

----------------------------------------------------------------------------
(* Collaborators *)

\* A context as the dispatcher passes it, and the zero value of the field.
InputCtx(base) == [base |-> base, traced |-> FALSE, span |-> <<>>]

ZeroCtx == [base |-> NIL, traced |-> FALSE, span |-> <<>>]

\* reqtrace.StartSpan(ctx, desc): a context with the span attached, and the
\* function that reports the span's completion.
StartSpan(ctx, desc) ==
    [ctx |-> [ctx EXCEPT !.traced = TRUE, !.span = desc],
     report |-> "reportForTrace"]

\* The base completion callback the connection passes to init.
ConnFinished == <<"connFinished">>

\* One call made by an envelope, as the callee sees it.
BlankEvent ==
    [k |-> "", err |-> NIL, data |-> <<>>, id |-> 0, depth |-> 0, sendErr |-> NIL]

EvCallback(k, err) == [BlankEvent EXCEPT !.k = k, !.err = err]

EvLine(k, depth, line) == [BlankEvent EXCEPT !.k = k, !.depth = depth, !.data = line]

EvSpan(desc) == [BlankEvent EXCEPT !.k = "StartSpan", !.data = desc]

EvSend(k, id, err, bytes, sendErr) ==
    [BlankEvent EXCEPT !.k = k, !.id = id, !.err = err, !.data = bytes,
                       !.sendErr = sendErr]

EvPanic == [BlankEvent EXCEPT !.k = "panic"]

\* The op's success encoding: the padding for the kernel's out header,
\* then the op's own bytes.
KernelResponse(op) == <<"00", "00">> \o op.typeName \o FormatUint(op.Inode)

\* op.respond(): encode the success response and submit it with the
\* request's unique ID.  sendErr is what the reply channel returns.
OpRespond(op, bazilReq, sendErr) ==
    <<EvSend("respond", bazilReq.ID, NIL, KernelResponse(op), sendErr)>>

\* bazilReq.RespondError(err): submit an error reply for the request.
RespondError(bazilReq, err, sendErr) ==
    <<EvSend("RespondError", bazilReq.ID, err, <<>>, sendErr)>>

\* What the reply channel puts on the wire for a submission.
WireMsg(ev) ==
    [id |-> ev.id,
     kind |-> IF ev.k = "respond" THEN "ok" ELSE "error",
     errno |-> IF ev.k = "respond" THEN "0" ELSE Errno(ev.err),
     data |-> ev.data,
     delivered |-> ev.sendErr = NIL]

IsSend(ev) == ev.k \in {"respond", "RespondError"}

----------------------------------------------------------------------------
(* commonOp.init *)

ZeroEnv ==
    [ctx |-> ZeroCtx, op |-> ZeroOp, bazilReq |-> [ID |-> 0],
     debugLog |-> NIL, errorLogger |-> NIL, finished |-> <<>>]

\* The fields without the store of line 98.
InitFieldsNoReq(ctx, op, bazilReq, debugLog, errorLogger, finished) ==
    [ctx |-> ctx, op |-> op, bazilReq |-> [ID |-> 0],
     debugLog |-> debugLog, errorLogger |-> errorLogger, finished |-> finished]

\* "Initialize basic fields" (lines 95-101).
InitFields(ctx, op, bazilReq, debugLog, errorLogger, finished) ==
    [ctx |-> ctx, op |-> op, bazilReq |-> bazilReq,
     debugLog |-> debugLog, errorLogger |-> errorLogger, finished |-> finished]

\* The closure calling the base callback before the trace report.
WrapFinishedSwapped(reportForTrace, prevFinish) == prevFinish \o <<reportForTrace>>

\* The closure without its call of the base callback.
WrapFinishedNoBase(reportForTrace, prevFinish) == <<reportForTrace>>

\* The closure of lines 109-112: the functions it calls, in order.
WrapFinished(reportForTrace, prevFinish) == <<reportForTrace>> \o prevFinish

\* init opening the span under the op's type name.
initRawLabel(ctx, op, bazilReq, debugLog, errorLogger, finished) ==
    LET o == InitFields(ctx, op, bazilReq, debugLog, errorLogger, finished)
        d == ShortDesc(o.op)
        sp == StartSpan(o.ctx, o.op.typeName)
    IN  IF d.panic
        THEN [o |-> o, panic |-> TRUE, events |-> <<EvPanic>>]
        ELSE [o |-> [o EXCEPT !.ctx = sp.ctx,
                              !.finished = WrapFinished(sp.report, o.finished)],
              panic |-> FALSE,
              events |-> <<EvSpan(o.op.typeName)>>]

\* init leaving the context it was passed in the envelope.
initKeepsCtx(ctx, op, bazilReq, debugLog, errorLogger, finished) ==
    LET o == InitFields(ctx, op, bazilReq, debugLog, errorLogger, finished)
        d == ShortDesc(o.op)
        sp == StartSpan(o.ctx, d.desc)
    IN  IF d.panic
        THEN [o |-> o, panic |-> TRUE, events |-> <<EvPanic>>]
        ELSE [o |-> [o EXCEPT !.finished = WrapFinished(sp.report, o.finished)],
              panic |-> FALSE,
              events |-> <<EvSpan(d.desc)>>]

\* init: the fields, then the span (its label is o.op.ShortDesc(), which may
\* panic before StartSpan is entered), then the wrapped completion callback.
init(ctx, op, bazilReq, debugLog, errorLogger, finished) ==
    LET o == InitFields(ctx, op, bazilReq, debugLog, errorLogger, finished)
        d == ShortDesc(o.op)
        sp == StartSpan(o.ctx, d.desc)
    IN  IF d.panic
        THEN [o |-> o, panic |-> TRUE, events |-> <<EvPanic>>]
        ELSE [o |-> [o EXCEPT !.ctx = sp.ctx,
                              !.finished = WrapFinished(sp.report, o.finished)],
              panic |-> FALSE,
              events |-> <<EvSpan(d.desc)>>]

----------------------------------------------------------------------------
(* commonOp.Logf and commonOp.Respond *)

\* Calling a func(error) value: each function of the chain gets err.
Invoke(finished, err) == [i \in 1 .. Len(finished) |-> EvCallback(finished[i], err)]

\* The format with the description left out.
ErrorFormatNoDesc(desc, err) ==
    <<"(", ")", " ", "e", "r", "r", "o", "r", ":", " ">> \o ErrorText(err)

\* fmt's "-> (%s) error: %v" and "(%s) error: %v"
ErrorFormat(desc, err) ==
    <<"(">> \o desc \o <<")", " ", "e", "r", "r", "o", "r", ":", " ">> \o ErrorText(err)

DebugFormat(desc, err) == <<"-", ">", " ">> \o ErrorFormat(desc, err)

\* Logf: nothing without a debug sink, else one call of it at calldepth 2.
Logf(o, line) ==
    IF o.debugLog = NIL THEN <<>> ELSE <<EvLine("debugLog", 2, line)>>

\* A call whose argument list evaluates ShortDesc(): the panic, or the call.
WithDesc(d, call) == IF d.panic THEN <<EvPanic>> ELSE call

\* The events up to the first panic, which ends the handler.
RECURSIVE UpToPanic(_)
UpToPanic(evs) ==
    IF evs = <<>> THEN <<>>
    ELSE IF Head(evs).k = "panic" THEN <<EvPanic>>
    ELSE <<Head(evs)>> \o UpToPanic(Tail(evs))

HasPanic(evs) == \E i \in 1 .. Len(evs) : evs[i].k = "panic"

\* Respond has no result: its return hands the caller nothing.
EvReturn == [BlankEvent EXCEPT !.k = "return"]

\* Lines 138-144 with the debug line written only when an error logger is
\* configured too.
DebugPartNeedsBoth(o, err) ==
    IF o.debugLog # NIL /\ o.errorLogger # NIL
    THEN LET d == ShortDesc(o.op) IN WithDesc(d, Logf(o, DebugFormat(d.desc, err)))
    ELSE <<>>

\* Lines 138-144.
DebugPart(o, err) ==
    IF o.debugLog # NIL
    THEN LET d == ShortDesc(o.op) IN WithDesc(d, Logf(o, DebugFormat(d.desc, err)))
    ELSE <<>>

\* Lines 146-151 without the nil test: Printf on a nil *log.Logger panics.
ErrorLogPartNoNilTest(o, err) ==
    LET d == ShortDesc(o.op)
    IN  WithDesc(d, IF o.errorLogger = NIL THEN <<EvPanic>>
                    ELSE <<EvLine("errorLogger", 0, ErrorFormat(d.desc, err))>>)

\* Lines 146-151.
ErrorLogPart(o, err) ==
    IF o.errorLogger # NIL
    THEN LET d == ShortDesc(o.op)
         IN  WithDesc(d, <<EvLine("errorLogger", 0, ErrorFormat(d.desc, err))>>)
    ELSE <<>>

\* Respond without the return of line 135: the success path falls through
\* to the error path.
RespondFallThrough(o, err, sendErr) ==
    LET body ==
            Invoke(o.finished, err)
                \o (IF err = NIL THEN OpRespond(o.op, o.bazilReq, sendErr) ELSE <<>>)
                \o DebugPart(o, err) \o ErrorLogPart(o, err)
                \o RespondError(o.bazilReq, err, sendErr)
        done == UpToPanic(body)
    IN  IF HasPanic(done) THEN done ELSE done \o <<EvReturn>>

\* Respond with the test of line 133 inverted.
RespondInverted(o, err, sendErr) ==
    LET body ==
            Invoke(o.finished, err)
                \o (IF err # NIL
                    THEN OpRespond(o.op, o.bazilReq, sendErr)
                    ELSE DebugPart(o, err) \o ErrorLogPart(o, err)
                            \o RespondError(o.bazilReq, err, sendErr))
        done == UpToPanic(body)
    IN  IF HasPanic(done) THEN done ELSE done \o <<EvReturn>>

\* Respond writing its log lines before it looks at err.
RespondLogsFirst(o, err, sendErr) ==
    LET body ==
            Invoke(o.finished, err)
                \o DebugPart(o, err) \o ErrorLogPart(o, err)
                \o (IF err = NIL
                    THEN OpRespond(o.op, o.bazilReq, sendErr)
                    ELSE RespondError(o.bazilReq, err, sendErr))
        done == UpToPanic(body)
    IN  IF HasPanic(done) THEN done ELSE done \o <<EvReturn>>

\* Respond putting the error log line into the reply it submits.
RespondLeak(o, err, sendErr) ==
    LET body ==
            Invoke(o.finished, err)
                \o (IF err = NIL
                    THEN OpRespond(o.op, o.bazilReq, sendErr)
                    ELSE DebugPart(o, err) \o ErrorLogPart(o, err)
                            \o <<EvSend("RespondError", o.bazilReq.ID, err,
                                        ErrorFormat(ShortDesc(o.op).desc, err),
                                        sendErr)>>)
        done == UpToPanic(body)
    IN  IF HasPanic(done) THEN done ELSE done \o <<EvReturn>>

\* Respond submitting the reply a second time when the first submission fails.
RespondRetry(o, err, sendErr) ==
    LET reply == IF err = NIL THEN OpRespond(o.op, o.bazilReq, sendErr)
                 ELSE RespondError(o.bazilReq, err, sendErr)
        body ==
            Invoke(o.finished, err)
                \o (IF err = NIL THEN <<>> ELSE DebugPart(o, err) \o ErrorLogPart(o, err))
                \o reply
                \o (IF sendErr # NIL THEN reply ELSE <<>>)
        done == UpToPanic(body)
    IN  IF HasPanic(done) THEN done ELSE done \o <<EvReturn>>

\* Respond submitting the reply before it reports completion.
RespondReplyFirst(o, err, sendErr) ==
    LET body ==
            (IF err = NIL
             THEN OpRespond(o.op, o.bazilReq, sendErr)
             ELSE RespondError(o.bazilReq, err, sendErr))
                \o Invoke(o.finished, err)
                \o (IF err = NIL THEN <<>> ELSE DebugPart(o, err) \o ErrorLogPart(o, err))
        done == UpToPanic(body)
    IN  IF HasPanic(done) THEN done ELSE done \o <<EvReturn>>

\* Respond: the calls it makes, in order; sendErr is what the reply channel
\* returns for a submission made now.
Respond(o, err, sendErr) ==
    LET body ==
            Invoke(o.finished, err)
                \o (IF err = NIL
                    THEN OpRespond(o.op, o.bazilReq, sendErr)
                    ELSE DebugPart(o, err) \o ErrorLogPart(o, err)
                            \o RespondError(o.bazilReq, err, sendErr))
        done == UpToPanic(body)
    IN  IF HasPanic(done) THEN done ELSE done \o <<EvReturn>>

----------------------------------------------------------------------------
(* The main specification: a dispatcher that creates envelopes, file system
   flows that respond to them, and a kernel connection that may go away. *)

EvInit == [BlankEvent EXCEPT !.k = "init"]

EvRespond(err) == [BlankEvent EXCEPT !.k = "Respond", !.err = err]

\* The wire messages of a sequence of submissions.
WireMsgs(evs) == [i \in 1 .. Len(evs) |-> WireMsg(evs[i])]

IsDebugLine(ev) == ev.k = "debugLog"

IsErrorLine(ev) == ev.k = "errorLogger"

MainInit ==
    /\ env = [id \in Envs |-> ZeroEnv]
    /\ st = [id \in Envs |-> "zero"]
    /\ hist = [id \in Envs |-> <<>>]
    /\ replyChan = <<>>
    /\ debugOut = <<>>
    /\ errorOut = <<>>
    /\ connAlive = TRUE
    /\ crashed = FALSE
    /\ connDebugLog \in {NIL, "debugLog"}
    /\ connErrorLogger \in {NIL, "errorLogger"}
    /\ calls = 0

\* The dispatcher decodes request id into op and initialises its envelope.
CallInit(id, ctx, op) ==
    /\ ~crashed
    /\ st[id] = "zero"
    /\ LET r == init(InputCtx(ctx), op, [ID |-> id], connDebugLog,
                     connErrorLogger, ConnFinished)
       IN  /\ env' = [env EXCEPT ![id] = r.o]
           /\ st' = [st EXCEPT ![id] = IF r.panic THEN "panicked" ELSE "created"]
           /\ hist' = [hist EXCEPT ![id] = @ \o <<EvInit>> \o r.events]
           /\ crashed' = r.panic
    /\ UNCHANGED <<replyChan, debugOut, errorOut, connAlive, connDebugLog,
                   connErrorLogger, calls>>

\* The file system calls Respond(err) on the envelope of request id.  The
\* code does not refuse a call on an envelope that was responded to before.
RespondStep(id, err) ==
    /\ ~crashed
    /\ st[id] \in {"created", "responded"}
    /\ LET evs == Respond(env[id], err, IF connAlive THEN NIL ELSE ErrNotConn)
       IN  /\ hist' = [hist EXCEPT ![id] = @ \o <<EvRespond(err)>> \o evs]
           /\ replyChan' = replyChan \o WireMsgs(SelectSeq(evs, IsSend))
           /\ debugOut' = debugOut \o SelectSeq(evs, IsDebugLine)
           /\ errorOut' = errorOut \o SelectSeq(evs, IsErrorLine)
           /\ crashed' = HasPanic(evs)
           /\ st' = [st EXCEPT ![id] = IF HasPanic(evs) THEN "panicked" ELSE "responded"]
    /\ calls' = calls + 1
    /\ UNCHANGED <<env, connAlive, connDebugLog, connErrorLogger>>

\* A Respond call, while the cap on calls allows one.
CallRespond(id, err) ==
    /\ calls < MaxCalls
    /\ RespondStep(id, err)

\* The kernel connection goes away: later submissions fail.
Disconnect ==
    /\ ~crashed
    /\ connAlive
    /\ connAlive' = FALSE
    /\ UNCHANGED <<env, st, hist, replyChan, debugOut, errorOut, crashed,
                   connDebugLog, connErrorLogger, calls>>

----------------------------------------------------------------------------
(* package fusetesting: the os.FileInfo matchers *)

\* time.Duration: the least and the greatest value of its width.
MinDuration == -(2 ^ (DurationBits - 1))
MaxDuration == 2 ^ (DurationBits - 1) - 1
Durations == MinDuration .. MaxDuration

\* time.Time: an instant and a location.  The instants span more than a
\* Duration can hold.
Instants == 0 .. (2 ^ (DurationBits - 1) + 1)
Locations == {"UTC", "Local"}
Times == [inst : Instants, loc : Locations]
ZeroTime == [inst |-> 0, loc |-> "UTC"]

\* Time.Sub: the difference of the instants, saturated to a Duration.
Sub(t, u) ==
    LET diff == t.inst - u.inst
    IN  IF diff < MinDuration THEN MinDuration
        ELSE IF diff > MaxDuration THEN MaxDuration
        ELSE diff

\* Unary minus on a Duration: two's complement negation in its width.
Neg(d) ==
    ((MaxDuration + 1 - d) % (2 ^ DurationBits)) - (MaxDuration + 1)

\* What FileInfo.Sys() holds of the platform's stat record: a birth time
\* and a link count, each only on the platforms that have it.
SysValues ==
    {[hasBirthtime |-> hb, birthtime |-> bt, hasNlink |-> hn, nlink |-> n] :
        hb \in BOOLEAN, bt \in Times, hn \in BOOLEAN, n \in 0 .. MaxNlink}

\* The platform's extraction of the birth time from Sys(): (value, ok).
extractBirthtime(sys) ==
    IF sys.hasBirthtime THEN [v |-> sys.birthtime, ok |-> TRUE]
    ELSE [v |-> ZeroTime, ok |-> FALSE]

\* The platform's extraction of the link count from Sys(): (value, ok).
extractNlink(sys) ==
    IF sys.hasNlink THEN [v |-> sys.nlink, ok |-> TRUE]
    ELSE [v |-> 0, ok |-> FALSE]

\* The values no platform field makes different: an absent field is zero.
Normal(sys) ==
    /\ ~sys.hasBirthtime => sys.birthtime = ZeroTime
    /\ ~sys.hasNlink => sys.nlink = 0

\* Candidates: os.FileInfo values, and one value of another type.
NotFileInfo ==
    [isFileInfo |-> FALSE, modTime |-> ZeroTime,
     sys |-> [hasBirthtime |-> FALSE, birthtime |-> ZeroTime,
              hasNlink |-> FALSE, nlink |-> 0]]
FileInfos ==
    {[isFileInfo |-> TRUE, modTime |-> t, sys |-> y] :
        t \in Times, y \in {z \in SysValues : Normal(z)}}
Candidates == FileInfos \cup {NotFileInfo}

mtimeIsWithin(c, expected, d) ==
    IF ~c.isFileInfo THEN "which is of type"
    ELSE LET diff == Sub(c.modTime, expected)
             absDiff == IF diff < 0 THEN Neg(diff) ELSE diff
         IN  IF ~(absDiff < d) THEN "which has mtime, off by"
             ELSE NIL

MtimeIs(c, expected) == mtimeIsWithin(c, expected, 0)

MtimeIsWithin(c, expected, d) == mtimeIsWithin(c, expected, d)

\* birthtimeIs where the extraction's ok is not looked at.
birthtimeIsAlways(c, expected) ==
    IF ~c.isFileInfo THEN "which is of type"
    ELSE LET r == extractBirthtime(c.sys)
         IN  IF r.v # expected THEN "which has Sys() birthtime, off by"
             ELSE NIL

birthtimeIs(c, expected) ==
    IF ~c.isFileInfo THEN "which is of type"
    ELSE LET r == extractBirthtime(c.sys)
         IN  IF r.ok /\ r.v # expected
             THEN "which has Sys() birthtime, off by"
             ELSE NIL

BirthtimeIs(c, expected) == birthtimeIs(c, expected)

nlinkIs(c, expected) ==
    IF ~c.isFileInfo THEN "which is of type"
    ELSE LET r == extractNlink(c.sys)
         IN  IF r.ok /\ r.v # expected THEN "which has nlink =="
             ELSE NIL

NlinkIs(c, expected) == nlinkIs(c, expected)

\* No matcher is in use.
MatchIdle ==
    /\ mC = NotFileInfo
    /\ mExpT = ZeroTime
    /\ mExpN = 0
    /\ mD = 0
    /\ mFn = "none"
    /\ mRes = NIL

\* A candidate, and the values the matchers are built with.
MatchInit ==
    /\ mC \in Candidates
    /\ mExpT \in Times
    /\ mExpN \in 1 .. MaxNlink
    /\ mD \in 0 .. MaxDuration
    /\ mFn = "none"
    /\ mRes = NIL

CallMtimeIs ==
    /\ mFn = "none"
    /\ mFn' = "MtimeIs"
    /\ mRes' = MtimeIs(mC, mExpT)
    /\ UNCHANGED <<mC, mExpT, mExpN, mD>>

CallMtimeIsWithin ==
    /\ mFn = "none"
    /\ mFn' = "MtimeIsWithin"
    /\ mRes' = MtimeIsWithin(mC, mExpT, mD)
    /\ UNCHANGED <<mC, mExpT, mExpN, mD>>

CallBirthtimeIs ==
    /\ mFn = "none"
    /\ mFn' = "BirthtimeIs"
    /\ mRes' = BirthtimeIs(mC, mExpT)
    /\ UNCHANGED <<mC, mExpT, mExpN, mD>>

CallNlinkIs ==
    /\ mFn = "none"
    /\ mFn' = "NlinkIs"
    /\ mRes' = NlinkIs(mC, mExpN)
    /\ UNCHANGED <<mC, mExpT, mExpN, mD>>

----------------------------------------------------------------------------
(* The ShortDesc study: an op is drawn and ShortDesc is called on it. *)

NoResult == [panic |-> FALSE, desc |-> <<"?">>]

SdInit ==
    /\ sdOp \in Ops
    /\ sdOut = NoResult
    /\ sdCalls = 0

CallShortDesc ==
    /\ sdCalls < MaxDescCalls
    /\ sdOut' = ShortDesc(sdOp)
    /\ sdCalls' = sdCalls + 1
    /\ UNCHANGED sdOp

\* No context is canceled at the start, and Context() was not called.
LiveInit ==
    /\ canceled = [id \in Envs |-> FALSE]
    /\ gotCtx = [id \in Envs |-> ZeroCtx]

Init ==
    /\ MainInit
    /\ LiveInit
    /\ MatchIdle
    /\ sdOp = ZeroOp
    /\ sdOut = NoResult
    /\ sdCalls = 0

Next ==
    \/ \E id \in Envs, ctx \in Contexts, op \in MainOps :
           CallInit(id, ctx, op) /\ UNCHANGED <<sdVars, liveVars, matchVars>>
    \/ \E id \in Envs, err \in RespondArgs :
           CallRespond(id, err) /\ UNCHANGED <<sdVars, liveVars, matchVars>>
    \/ Disconnect /\ UNCHANGED <<sdVars, liveVars, matchVars>>

Spec == Init /\ [][Next]_vars

\* The ShortDesc study leaves the envelopes as constructed.
InitDesc ==
    /\ SdInit
    /\ MainInit
    /\ LiveInit
    /\ MatchIdle
    /\ connDebugLog = NIL
    /\ connErrorLogger = NIL

NextDesc == CallShortDesc /\ UNCHANGED <<mainVars, liveVars, matchVars>>

SpecDesc == InitDesc /\ [][NextDesc]_vars

\* The matcher study: the inputs are drawn and one matcher is applied.
InitMatch ==
    /\ MatchInit
    /\ MainInit
    /\ LiveInit
    /\ sdOp = ZeroOp
    /\ sdOut = NoResult
    /\ sdCalls = 0
    /\ connDebugLog = NIL
    /\ connErrorLogger = NIL

NextMatch ==
    \/ CallMtimeIs /\ UNCHANGED <<mainVars, sdVars, liveVars>>
    \/ CallMtimeIsWithin /\ UNCHANGED <<mainVars, sdVars, liveVars>>
    \/ CallBirthtimeIs /\ UNCHANGED <<mainVars, sdVars, liveVars>>
    \/ CallNlinkIs /\ UNCHANGED <<mainVars, sdVars, liveVars>>

SpecMatch == InitMatch /\ [][NextMatch]_vars

----------------------------------------------------------------------------
(* The file system's flow: one flow owns an envelope from init to its
   Respond call; meanwhile it may read the context, log, and see the
   context canceled.  Each flow is scheduled fairly. *)

\* commonOp.Context
Context(o) == o.ctx

\* The file system reads the envelope's context.
CallContext(id) ==
    /\ ~crashed
    /\ st[id] = "created"
    /\ gotCtx' = [gotCtx EXCEPT ![id] = Context(env[id])]
    /\ UNCHANGED <<mainVars, canceled>>

\* What the file system logs through Logf.
AppLine == <<"w", "o", "r", "k">>

\* The file system calls Logf on the envelope.
CallLogf(id) ==
    /\ ~crashed
    /\ st[id] = "created"
    /\ Len(SelectSeq(hist[id], IsDebugLine)) < MaxLogf
    /\ LET evs == Logf(env[id], AppLine)
       IN  /\ hist' = [hist EXCEPT ![id] = @ \o evs]
           /\ debugOut' = debugOut \o evs
    /\ UNCHANGED <<env, st, replyChan, errorOut, connAlive, crashed,
                   connDebugLog, connErrorLogger, calls, liveVars>>

\* The file system asks the envelope for its short description.
CallDesc(id) ==
    /\ ~crashed
    /\ st[id] = "created"
    /\ sdOp' = env[id].op
    /\ sdOut' = ShortDesc(env[id].op)
    /\ UNCHANGED <<mainVars, liveVars, sdCalls>>

\* The context of an envelope in progress is canceled.
Cancel(id) ==
    /\ ~crashed
    /\ st[id] = "created"
    /\ ~canceled[id]
    /\ canceled' = [canceled EXCEPT ![id] = TRUE]
    /\ UNCHANGED <<mainVars, gotCtx>>

\* The errors a flow passes to Respond (nil included): two of them have
\* different texts and the same errno.
FlowArgs == {NIL, "errIO", "errIOdisk"}

\* The owning flow makes its Respond call.
AppRespond(id) ==
    \E err \in FlowArgs :
        /\ st[id] = "created"
        /\ RespondStep(id, err)
        /\ UNCHANGED <<sdVars, liveVars, matchVars>>

NextLive ==
    \/ \E id \in Envs, ctx \in Contexts, op \in MainOps :
           CallInit(id, ctx, op) /\ UNCHANGED <<sdVars, liveVars, matchVars>>
    \/ \E id \in Envs : AppRespond(id)
    \/ \E id \in Envs : CallContext(id) /\ UNCHANGED <<sdVars, matchVars>>
    \/ \E id \in Envs : CallLogf(id) /\ UNCHANGED <<sdVars, matchVars>>
    \/ \E id \in Envs : CallDesc(id) /\ UNCHANGED matchVars
    \/ \E id \in Envs : Cancel(id) /\ UNCHANGED <<sdVars, matchVars>>
    \/ Disconnect /\ UNCHANGED <<sdVars, liveVars, matchVars>>

SpecLive == Init /\ [][NextLive]_vars /\ \A id \in Envs : WF_vars(AppRespond(id))

----------------------------------------------------------------------------
(* Reading the history of an envelope *)

MinOf(S) == CHOOSE x \in S : \A y \in S : x <= y

\* The positions in hist[id] at which a Respond call starts.
RespondStarts(id) == {i \in 1 .. Len(hist[id]) : hist[id][i].k = "Respond"}

\* What the Respond call started at position i did.
BlockOf(id, i) ==
    LET later == {j \in RespondStarts(id) : j > i}
        last == IF later = {} THEN Len(hist[id]) ELSE MinOf(later) - 1
    IN  SubSeq(hist[id], i + 1, last)

\* The Respond calls made on the envelope: the error passed, what was done.
RespondCalls(id) ==
    {[err |-> hist[id][i].err, evs |-> BlockOf(id, i)] : i \in RespondStarts(id)}

NumCalls(id) == Cardinality(RespondStarts(id))

\* The submissions the envelope made, and the messages on the reply channel
\* that bear its request ID.
SendsOf(id) == SelectSeq(hist[id], IsSend)

BearsID(id, m) == m.id = id

MsgsFor(id) == SelectSeq(replyChan, LAMBDA m : BearsID(id, m))

Where(evs, P(_)) == {i \in 1 .. Len(evs) : P(evs[i])}

IsLine(ev) == ev.k \in {"debugLog", "errorLogger"}

IsReturn(ev) == ev.k = "return"

\* The description the envelope's op has, as ShortDesc() returns it.
DescOf(id) == ShortDesc(env[id].op).desc

----------------------------------------------------------------------------
(* Claims *)

\* C1 as stated: whatever the number of Respond calls on an envelope (one,
\* or two or more), exactly one message reaches the reply channel, and it
\* carries the envelope's request identifier.
C1_ExactlyOneMessage ==
    \A id \in Envs :
        NumCalls(id) >= 1 =>
            /\ Len(SendsOf(id)) = 1
            /\ Len(MsgsFor(id)) = 1
            /\ SendsOf(id)[1].id = id

\* C1 amended: every Respond call on an envelope submits exactly one
\* message, carrying the envelope's request identifier: one call puts one
\* message on the reply channel, k calls put k messages there.
C1_OneMessagePerCall ==
    \A id \in Envs :
        /\ Len(SendsOf(id)) = NumCalls(id)
        /\ Len(MsgsFor(id)) = NumCalls(id)
        /\ \A i \in 1 .. Len(SendsOf(id)) : SendsOf(id)[i].id = id
        /\ \A c \in RespondCalls(id) : Cardinality(Where(c.evs, IsSend)) = 1

C1_Witness ==
    \E id \in Envs : NumCalls(id) = 2 /\ Len(MsgsFor(id)) = 2

\* C2: Respond(err) with err non-nil submits one error-coded reply bearing
\* the envelope's own request identifier and no success payload, and every
\* configured sink (debug sink, error logger) gets a line that contains the
\* op's short description and the error's text.
C2_ErrorPath ==
    \A id \in Envs : \A c \in RespondCalls(id) :
        c.err # NIL =>
            /\ \E i \in 1 .. Len(c.evs) :
                   /\ c.evs[i].k = "RespondError"
                   /\ c.evs[i].id = id
                   /\ c.evs[i].err = c.err
                   /\ c.evs[i].data = <<>>
                   /\ \E n \in 1 .. Len(replyChan) :
                          /\ replyChan[n] = WireMsg(c.evs[i])
                          /\ replyChan[n].kind = "error"
                          /\ replyChan[n].errno = Errno(c.err)
            /\ \A i \in 1 .. Len(c.evs) : c.evs[i].k # "respond"
            /\ env[id].debugLog # NIL =>
                   \E i \in 1 .. Len(c.evs) :
                       /\ c.evs[i].k = "debugLog"
                       /\ Contains(c.evs[i].data, DescOf(id))
                       /\ Contains(c.evs[i].data, ErrorText(c.err))
                       /\ \E n \in 1 .. Len(debugOut) : debugOut[n] = c.evs[i]
            /\ env[id].errorLogger # NIL =>
                   \E i \in 1 .. Len(c.evs) :
                       /\ c.evs[i].k = "errorLogger"
                       /\ Contains(c.evs[i].data, DescOf(id))
                       /\ Contains(c.evs[i].data, ErrorText(c.err))
                       /\ \E n \in 1 .. Len(errorOut) : errorOut[n] = c.evs[i]

C2_Witness ==
    \E id \in Envs : \E c \in RespondCalls(id) :
        /\ c.err # NIL
        /\ env[id].debugLog # NIL
        /\ env[id].errorLogger # NIL
        /\ DescOf(id) # <<>>
        /\ Len(errorOut) > 0
        /\ Len(debugOut) > 0
        /\ Len(MsgsFor(id)) > 0

\* C3: Respond(nil) submits, with the envelope's stored request identifier,
\* exactly the bytes of the op's kernelResponse(), and no error-coded reply.
C3_SuccessPath ==
    \A id \in Envs : \A c \in RespondCalls(id) :
        c.err = NIL =>
            /\ Cardinality(Where(c.evs, IsSend)) = 1
            /\ \A i \in Where(c.evs, IsSend) :
                   /\ c.evs[i].k = "respond"
                   /\ c.evs[i].id = env[id].bazilReq.ID
                   /\ c.evs[i].id = id
                   /\ c.evs[i].data = KernelResponse(env[id].op)
                   /\ \E n \in 1 .. Len(replyChan) :
                          /\ replyChan[n].id = id
                          /\ replyChan[n].kind = "ok"
                          /\ replyChan[n].data = KernelResponse(env[id].op)
            /\ \A n \in 1 .. Len(MsgsFor(id)) :
                   MsgsFor(id)[n].kind = "error" =>
                       \E d \in RespondCalls(id) : d.err # NIL

C3_Witness ==
    \E id \in Envs : \E c \in RespondCalls(id) :
        /\ c.err = NIL
        /\ NumCalls(id) = 1
        /\ Len(MsgsFor(id)) = 1
        /\ MsgsFor(id)[1].kind = "ok"
        /\ MsgsFor(id)[1].data = KernelResponse(env[id].op)

\* The bare operation name of a type name: "*fuseops." and "Op" removed when
\* the name has both, the name itself otherwise.
BareName(typeName) ==
    IF HasPrefix(typeName, prefix) /\ HasSuffix(typeName, suffix)
    THEN SubSeq(typeName, Len(prefix) + 1, Len(typeName) - Len(suffix))
    ELSE typeName

\* C4: for an op without Inode field, ShortDesc() returns the bare operation
\* name alone, with no suffix, and never the empty string.
C4_BareNameWithoutInode ==
    (sdCalls > 0 /\ ~sdOp.hasInode) =>
        /\ ~sdOut.panic
        /\ sdOut.desc = BareName(sdOp.typeName)
        /\ sdOut.desc # <<>>

\* C5: for an op with an Inode field of value n, ShortDesc() returns the
\* bare operation name followed by "(inode=n)".
C5_NameWithInode ==
    (sdCalls > 0 /\ sdOp.hasInode) =>
        /\ ~sdOut.panic
        /\ sdOut.desc = BareName(sdOp.typeName)
                            \o <<"(", "i", "n", "o", "d", "e", "=">>
                            \o FormatUint(sdOp.Inode) \o <<")">>

FailedSends(evs) == {i \in Where(evs, IsSend) : evs[i].sendErr # NIL}

\* C6 as stated: when the reply channel fails to deliver during Respond, the
\* send is not retried (one submission attempt) and the caller of Respond
\* observes the delivery failure.
C6_FailurePropagated ==
    \A id \in Envs : \A c \in RespondCalls(id) :
        \A i \in FailedSends(c.evs) :
            /\ Cardinality(Where(c.evs, IsSend)) = 1
            /\ \E r \in Where(c.evs, IsReturn) : c.evs[r].err = c.evs[i].sendErr

\* C6 amended: when the reply channel fails to deliver during Respond, the
\* send is not retried (the call makes one submission attempt, success or
\* error path) and the failure is dropped: Respond returns normally and,
\* having no result, hands its caller no error.
C6_FailureNotRetried ==
    \A id \in Envs : \A c \in RespondCalls(id) :
        \A i \in FailedSends(c.evs) :
            /\ Cardinality(Where(c.evs, IsSend)) = 1
            /\ c.evs[i].k = IF c.err = NIL THEN "respond" ELSE "RespondError"
            /\ ~HasPanic(c.evs)
            /\ Where(c.evs, IsReturn) = {Len(c.evs)}
            /\ c.evs[Len(c.evs)].err = NIL
            /\ \E n \in 1 .. Len(replyChan) :
                   replyChan[n] = WireMsg(c.evs[i]) /\ ~replyChan[n].delivered

C6_Witness ==
    \E id \in Envs : \E c \in RespondCalls(id) :
        /\ FailedSends(c.evs) # {}
        /\ ~connAlive
        /\ \E n \in 1 .. Len(replyChan) : ~replyChan[n].delivered

IsCallback(ev) == ev.k \in {"reportForTrace", "connFinished"}

\* C7: when Respond(err) runs, the completion callback installed by init
\* calls the trace-span completion function first and the base callback
\* second, and both get the error value passed to Respond.
C7_CallbackChaining ==
    \A id \in Envs : \A c \in RespondCalls(id) :
        /\ Len(c.evs) >= 2
        /\ c.evs[1] = EvCallback("reportForTrace", c.err)
        /\ c.evs[2] = EvCallback("connFinished", c.err)
        /\ Where(c.evs, IsCallback) = {1, 2}

C7_Witness ==
    \E id \in Envs : \E c, d \in RespondCalls(id) :
        /\ c.err # NIL
        /\ d.err = NIL
        /\ c.evs[2] = EvCallback("connFinished", c.err)
        /\ d.evs[2] = EvCallback("connFinished", NIL)

SpanOpened(id) == \E j \in 1 .. Len(hist[id]) : hist[id][j].k = "StartSpan"

\* C8: within an envelope the events are ordered and none is skipped: the
\* span is opened by init before the envelope is handed over; in Respond
\* the completion callback (trace report, then base callback) runs before
\* any log line, and the reply is submitted after the callback and all log
\* lines; no reply is submitted for an envelope whose span was not opened or
\* whose completion callback has not run.
C8_Ordering ==
    \A id \in Envs :
        /\ st[id] \in {"created", "responded"} =>
               /\ Len(hist[id]) >= 2
               /\ hist[id][1].k = "init"
               /\ hist[id][2].k = "StartSpan"
        /\ RespondStarts(id) # {} => SpanOpened(id)
        /\ Len(MsgsFor(id)) > 0 => SpanOpened(id) /\ RespondStarts(id) # {}
        /\ \A i \in Where(hist[id], IsSend) :
               \E j \in 1 .. (i - 1) : hist[id][j].k = "StartSpan"
        /\ \A c \in RespondCalls(id) :
               LET cb == Where(c.evs, IsCallback)
                   ln == Where(c.evs, IsLine)
                   sd == Where(c.evs, IsSend)
               IN  /\ \E x, y \in cb :
                          /\ x < y
                          /\ c.evs[x].k = "reportForTrace"
                          /\ c.evs[y].k = "connFinished"
                   /\ sd # {}
                   /\ \A l \in ln : \A x \in cb : x < l
                   /\ \A x \in sd : \A y \in cb \cup ln : y < x

C8_Witness ==
    \E id \in Envs : \E c \in RespondCalls(id) :
        /\ Cardinality(Where(c.evs, IsLine)) = 2
        /\ Cardinality(Where(c.evs, IsSend)) = 1
        /\ Len(MsgsFor(id)) > 0

\* C9: with the debug sink and the error logger both absent, Respond(err)
\* for a non-nil err writes no log line, submits the reply exactly once and
\* fails in no way of its own.
C9_NoSinkSafety ==
    /\ (connDebugLog = NIL /\ connErrorLogger = NIL) =>
           debugOut = <<>> /\ errorOut = <<>>
    /\ \A id \in Envs : \A c \in RespondCalls(id) :
           (c.err # NIL /\ env[id].debugLog = NIL /\ env[id].errorLogger = NIL) =>
               /\ Where(c.evs, IsLine) = {}
               /\ Cardinality(Where(c.evs, IsSend)) = 1
               /\ \A i \in Where(c.evs, IsSend) : c.evs[i].k = "RespondError"
               /\ ~HasPanic(c.evs)
               /\ Where(c.evs, IsReturn) = {Len(c.evs)}
               /\ st[id] = "responded"

C9_Witness ==
    \E id \in Envs : \E c \in RespondCalls(id) :
        /\ c.err # NIL
        /\ env[id].debugLog = NIL
        /\ env[id].errorLogger = NIL
        /\ Len(MsgsFor(id)) = 1

\* C10: envelopes with distinct request identifiers that share the reply
\* channel do not interfere, whatever the order of their Respond calls: the
\* messages bearing an envelope's identifier are those the envelope itself
\* submitted (one, when it was responded to once), each with its own
\* payload or error, and the channel holds no other message.
C10_NoCrossTalk ==
    /\ Len(replyChan) = calls
    /\ \A n \in 1 .. Len(replyChan) :
           replyChan[n].id \in Envs /\ st[replyChan[n].id] = "responded"
    /\ \A id \in Envs :
           /\ MsgsFor(id) = WireMsgs(SendsOf(id))
           /\ NumCalls(id) = 1 => Len(MsgsFor(id)) = 1
           /\ \A c \in RespondCalls(id) : \A i \in Where(c.evs, IsSend) :
                  /\ c.evs[i].id = id
                  /\ c.err = NIL =>
                         /\ c.evs[i].k = "respond"
                         /\ c.evs[i].data = KernelResponse(env[id].op)
                  /\ c.err # NIL =>
                         /\ c.evs[i].k = "RespondError"
                         /\ c.evs[i].err = c.err

C10_Witness ==
    /\ \A id \in Envs : NumCalls(id) = 1
    /\ Len(replyChan) = NumEnvs
    /\ replyChan[1].id = 2
    /\ replyChan[2].id = 1
    /\ replyChan[1].kind = "error"
    /\ replyChan[2].kind = "ok"
    /\ env[1].op # env[2].op

\* C11: every accepted request (every initialised envelope) eventually has
\* exactly one reply on the reply channel bearing its identifier, when the
\* flow that owns the envelope is scheduled fairly, and also when its context
\* is canceled meanwhile; no request is answered twice.  In the form a finite
\* run refutes: no request has two replies, and a request that still awaits
\* its reply is in a process that still runs, so that its flow can answer it.
C11_EventuallyOneReply ==
    \A id \in Envs :
        /\ Len(MsgsFor(id)) <= 1
        /\ st[id] = "created" => ~crashed

\* C12: MtimeIs(expected) matches every os.FileInfo value whose ModTime is
\* equal to expected and rejects every os.FileInfo value whose ModTime
\* differs from it.
C12_MtimeIsExact ==
    (mFn = "MtimeIs" /\ mC.isFileInfo) =>
        (mRes = NIL <=> mC.modTime.inst = mExpT.inst)

\* C13: BirthtimeIs(expected) and NlinkIs(expected) match every os.FileInfo
\* value for which the platform yields no birth time (no link count); where
\* it yields the value, they match exactly when that value equals expected.
C13_SysMatchers ==
    /\ (mFn = "BirthtimeIs" /\ mC.isFileInfo) =>
           IF mC.sys.hasBirthtime
           THEN mRes = NIL <=> mC.sys.birthtime = mExpT
           ELSE mRes = NIL
    /\ (mFn = "NlinkIs" /\ mC.isFileInfo) =>
           IF mC.sys.hasNlink
           THEN mRes = NIL <=> mC.sys.nlink = mExpN
           ELSE mRes = NIL

\* Witness of C13: NlinkIs rejected a FileInfo whose link count the platform
\* yields and which differs from the expected one.
C13_Witness ==
    /\ mFn = "NlinkIs"
    /\ mC.isFileInfo
    /\ mC.sys.hasNlink
    /\ mC.sys.nlink # mExpN
    /\ mRes # NIL

\* The Respond calls on the error path, the messages each put on the wire,
\* and what the reply channel returned for them.
ErrorCalls(id) == {c \in RespondCalls(id) : c.err # NIL}

WireOf(c) == WireMsgs(SelectSeq(c.evs, IsSend))

SendOutcome(c) ==
    LET sends == SelectSeq(c.evs, IsSend)
    IN  [n \in 1 .. Len(sends) |-> sends[n].sendErr]

\* The messages aside from the request identifier they bear.
Unlabelled(msgs) == [n \in 1 .. Len(msgs) |-> [msgs[n] EXCEPT !.id = 0]]

\* C14: what the error path puts on the wire depends on the request
\* identifier and the errno of the error only: two error-path calls with the
\* same errno, whatever the error texts and the short descriptions of their
\* ops, put the same messages on the wire, each under its own request
\* identifier, and no message holds the error text or the description.
C14_WireIndependentOfDetail ==
    \A i \in Envs, j \in Envs : \A a \in ErrorCalls(i), b \in ErrorCalls(j) :
        /\ \A n \in 1 .. Len(WireOf(a)) :
               /\ WireOf(a)[n].id = i
               /\ WireOf(a)[n].errno = Errno(a.err)
               /\ ~Contains(WireOf(a)[n].data, ErrorText(a.err))
               /\ DescOf(i) # <<>> => ~Contains(WireOf(a)[n].data, DescOf(i))
        /\ (Errno(a.err) = Errno(b.err) /\ SendOutcome(a) = SendOutcome(b)) =>
               Unlabelled(WireOf(a)) = Unlabelled(WireOf(b))

\* Witness of C14: two calls with different error texts, different
\* descriptions and the same errno, whose detail reached the error logger.
C14_Witness ==
    \E i \in Envs, j \in Envs : \E a \in ErrorCalls(i), b \in ErrorCalls(j) :
        /\ ErrorText(a.err) # ErrorText(b.err)
        /\ Errno(a.err) = Errno(b.err)
        /\ DescOf(i) # DescOf(j)
        /\ DescOf(i) # <<>>
        /\ SendOutcome(a) = SendOutcome(b)
        /\ Len(WireOf(a)) = 1
        /\ Len(WireOf(b)) = 1
        /\ \E n \in 1 .. Len(errorOut) : Contains(errorOut[n].data, ErrorText(a.err))

\* The lines an error-path call wrote to a sink.
LinesOf(c, k) == SelectSeq(c.evs, LAMBDA ev : ev.k = k)

\* C15 as stated: on the error path each configured sink gets the line
\* "-> (<description>) error: <err>", the same line for both, and a sink
\* that is not configured gets nothing, whatever the other sink is.
C15_SameLine ==
    \A id \in Envs : \A c \in ErrorCalls(id) :
        /\ Len(LinesOf(c, "debugLog")) = IF env[id].debugLog # NIL THEN 1 ELSE 0
        /\ Len(LinesOf(c, "errorLogger")) = IF env[id].errorLogger # NIL THEN 1 ELSE 0
        /\ \A n \in 1 .. Len(LinesOf(c, "debugLog")) :
               LinesOf(c, "debugLog")[n].data = DebugFormat(DescOf(id), c.err)
        /\ \A n \in 1 .. Len(LinesOf(c, "errorLogger")) :
               LinesOf(c, "errorLogger")[n].data = DebugFormat(DescOf(id), c.err)

\* C15 amended: on the error path the debug sink gets the line
\* "-> (<description>) error: <err>" exactly when it is configured, and the
\* error logger gets the line "(<description>) error: <err>", without the
\* leading arrow, exactly when it is configured; neither depends on the
\* other.
C15_SinksOrthogonal ==
    \A id \in Envs : \A c \in ErrorCalls(id) :
        /\ Len(LinesOf(c, "debugLog")) = IF env[id].debugLog # NIL THEN 1 ELSE 0
        /\ Len(LinesOf(c, "errorLogger")) = IF env[id].errorLogger # NIL THEN 1 ELSE 0
        /\ \A n \in 1 .. Len(LinesOf(c, "debugLog")) :
               LinesOf(c, "debugLog")[n].data = DebugFormat(DescOf(id), c.err)
        /\ \A n \in 1 .. Len(LinesOf(c, "errorLogger")) :
               /\ LinesOf(c, "errorLogger")[n].data = ErrorFormat(DescOf(id), c.err)
               /\ LinesOf(c, "errorLogger")[n].data # DebugFormat(DescOf(id), c.err)

\* Witness of C15: an error-path call with the debug sink alone configured
\* wrote the debug line and no error log line.
C15_Witness ==
    \E id \in Envs : \E c \in ErrorCalls(id) :
        /\ env[id].debugLog # NIL
        /\ env[id].errorLogger = NIL
        /\ Len(LinesOf(c, "debugLog")) = 1
        /\ Len(LinesOf(c, "errorLogger")) = 0
        /\ Len(debugOut) = 1
        /\ errorOut = <<>>

\* The calls of kind k the envelope made, over its whole history.
CountOf(id, k) == Len(SelectSeq(hist[id], LAMBDA ev : ev.k = k))

\* C16 as stated: whatever the sequence of Respond calls on an envelope, the
\* span opened at init is completed exactly once and the base completion
\* callback is invoked exactly once; once the envelope is responded to, the
\* completions are as many as the spans opened for it.
C16_CompletedOnce ==
    \A id \in Envs :
        NumCalls(id) >= 1 =>
            /\ CountOf(id, "reportForTrace") = 1
            /\ CountOf(id, "connFinished") = 1
            /\ CountOf(id, "reportForTrace") = CountOf(id, "StartSpan")

\* C16 amended: init opens one span for the envelope, and every Respond call
\* completes it once and invokes the base completion callback once: after k
\* calls there are k completions and k base callback invocations, so the
\* completions equal the spans opened exactly when Respond was called once.
C16_CompletedPerCall ==
    \A id \in Envs :
        /\ st[id] \in {"created", "responded"} => CountOf(id, "StartSpan") = 1
        /\ CountOf(id, "reportForTrace") = NumCalls(id) * CountOf(id, "StartSpan")
        /\ CountOf(id, "connFinished") = NumCalls(id) * CountOf(id, "StartSpan")
        /\ \A c \in RespondCalls(id) :
               /\ Len(LinesOf(c, "reportForTrace")) = 1
               /\ Len(LinesOf(c, "connFinished")) = 1

\* Witness of C16: an envelope with one span opened and two Respond calls,
\* hence two completions and two base callback invocations.
C16_Witness ==
    \E id \in Envs :
        /\ NumCalls(id) = 2
        /\ CountOf(id, "StartSpan") = 1
        /\ CountOf(id, "reportForTrace") = 2
        /\ CountOf(id, "connFinished") = 2

\* The envelope was handed over by init.
Initialised(id) == st[id] \in {"created", "responded"}

\* C17: the envelope's context is written during init only.  After init,
\* Context() returns the context the span provider returned, with the span
\* attached, not the context passed to init; and no later operation
\* (Context, Logf, ShortDesc, Respond) changes the stored context, the op or
\* the request identifier.
C17_ContextFrame ==
    /\ [](\A id \in Envs :
            /\ Initialised(id) =>
                   /\ Context(env[id]) =
                          StartSpan(InputCtx(env[id].ctx.base), DescOf(id)).ctx
                   /\ Context(env[id]).traced
                   /\ Context(env[id]) # InputCtx(env[id].ctx.base)
                   /\ env[id].bazilReq.ID = id
            /\ gotCtx[id] # ZeroCtx =>
                   /\ Initialised(id)
                   /\ gotCtx[id] = env[id].ctx
                   /\ gotCtx[id].traced)
    /\ [][\A id \in Envs :
            Initialised(id) =>
                /\ env'[id].ctx = env[id].ctx
                /\ env'[id].op = env[id].op
                /\ env'[id].bazilReq = env[id].bazilReq]_vars

\* Witness of C17: an envelope that was read by Context(), logged to by Logf
\* and responded to.
C17_Witness ==
    \E id \in Envs :
        /\ st[id] = "responded"
        /\ gotCtx[id] # ZeroCtx
        /\ gotCtx[id] # InputCtx("background")
        /\ \E n \in 1 .. Len(hist[id]) : hist[id][n].data = AppLine

\* The labels of the spans init opened for the envelope.
SpanLabels(id) ==
    {hist[id][n].data : n \in {m \in 1 .. Len(hist[id]) : hist[id][m].k = "StartSpan"}}

RECURSIVE SumErrorCalls(_)
SumErrorCalls(ids) ==
    IF ids = {} THEN 0
    ELSE LET id == CHOOSE x \in ids : TRUE
         IN  Cardinality({i \in RespondStarts(id) : hist[id][i].err # NIL})
                 + SumErrorCalls(ids \ {id})

\* C19: Respond(nil) writes no line to the debug sink and none to the error
\* logger, configured or not: the lines the sinks hold are those of the
\* calls with a non-nil error.
C19_SilentSuccess ==
    /\ \A id \in Envs : \A c \in RespondCalls(id) :
           c.err = NIL => \A n \in 1 .. Len(c.evs) : ~IsLine(c.evs[n])
    /\ Len(debugOut) = IF connDebugLog # NIL THEN SumErrorCalls(Envs) ELSE 0
    /\ Len(errorOut) = IF connErrorLogger # NIL THEN SumErrorCalls(Envs) ELSE 0

\* Witness of C19: Respond(nil) returned on an envelope with both sinks
\* configured, the reply is on the channel and both sinks are empty.
C19_Witness ==
    \E id \in Envs : \E c \in RespondCalls(id) :
        /\ c.err = NIL
        /\ env[id].debugLog # NIL
        /\ env[id].errorLogger # NIL
        /\ \E n \in 1 .. Len(c.evs) : IsReturn(c.evs[n])
        /\ Len(MsgsFor(id)) >= 1
        /\ debugOut = <<>>
        /\ errorOut = <<>>

====
